---- MODULE Spec2Model ----
(***************************************************************************)
(* Conway's Game of Life engine of src/index.js: the world model (an array *)
(* of column arrays on the JavaScript heap), restart(), _generateModel(),  *)
(* and the interval callback that runs _next() and _render().              *)
(***************************************************************************)
EXTENDS Integers, FiniteSets, Sequences, TLC

\* ------------------------------------------------------------- bounds

\* Spec: worlds of at most MaxRestartCells cells (width * height).
MaxRestartCells == 6
\* SpecStep: worlds of at most MaxCells cells (width * height).
MaxCells == 12
\* SpecBlinker: worlds of at most MaxSide x MaxSide cells.
MaxSide == 5
\* SpecNew: the width and the height given to the constructor are between
\* -MaxGiven and MaxGiven.
MaxGiven == 2
\* SpecNew: the first population draws Alive only among the first MaxDrawn
\* columns and rows.
MaxDrawn == 2

\* ------------------------------------------------ program constants

\* The width and the height of an engine that was given none.
DefaultWidth == 100
DefaultHeight == 100

\* ------------------------------------------------- JavaScript values

\* The value of reading an array index that holds no element.
Undefined == -1
\* The value of adding undefined to a number.
NaN == -2
\* Reading a property of undefined raises a TypeError: the marker of a raise.
TypeError == -3

VARIABLES
  _options,   \* this._options: [width, height]
  heap,       \* the arrays alive on the heap: address -> array (index -> value)
  _model,     \* this._model: the address of the current world
  _cycle,     \* this._cycle: the handle of the running interval timer
  timers,     \* the window's active interval timers (handles)
  canvas,     \* what _render painted last: column -> row -> cell
  threw,      \* the last interval callback ended in an uncaught TypeError
  stale,      \* the address this._model held when _next was last called
  snapshot    \* the world this._model held when _next was last called

vars == <<_options, heap, _model, _cycle, timers, canvas, threw, stale, snapshot>>

\* ------------------------------------------------------ arrays, heap

EmptyArray == [i \in {} |-> 0]

Length(arr) == Cardinality(DOMAIN arr)

\* arr.push(v)
Push(arr, v) == arr @@ (Length(arr) :> v)

\* arr[i] of an array: undefined outside 0..length-1.
At(arr, i) == IF i \in DOMAIN arr THEN arr[i] ELSE Undefined

\* this._model[n][k] as JavaScript evaluates it: this._model[n] is undefined
\* past the ends, and indexing undefined raises.
ReadCell(hp, model, n, k) ==
  LET column == At(hp[model], n)
  IN  IF column = Undefined THEN TypeError ELSE At(hp[column], k)

\* a + b on cell values: a raise in either operand aborts the expression,
\* undefined or NaN makes the sum NaN.
Plus(a, b) ==
  IF a = TypeError \/ b = TypeError THEN TypeError
  ELSE IF a \in {Undefined, NaN} \/ b \in {Undefined, NaN} THEN NaN
  ELSE a + b

\* A new array gets an address no live array has (the lowest one).
FreshAddress(hp) ==
  CHOOSE a \in 0..Cardinality(DOMAIN hp) :
    a \notin DOMAIN hp /\ \A b \in 0..(a - 1) : b \in DOMAIN hp

\* The arrays of the world at address model: the outer array and its columns.
ArraysOf(hp, model) == {model} \cup {hp[model][n] : n \in DOMAIN hp[model]}

\* Garbage collection: only the arrays reachable from the roots stay.
Collect(hp, roots) ==
  LET live == UNION {ArraysOf(hp, r) : r \in roots}
  IN  [a \in live |-> hp[a]]

\* The world at address model as a value: column -> row -> cell.
World(hp, model) == [n \in DOMAIN hp[model] |-> hp[hp[model][n]]]

\* A value used as a condition: 0, undefined and NaN are falsy.
Truthy(v) == v \notin {0, Undefined, NaN}

\* a < b and a > b on numbers: every comparison with NaN is false.
Less(a, b) == a # NaN /\ a < b
Greater(a, b) == a # NaN /\ a > b

\* ---------------------------------------------------- _generateModel

\* The outcomes of the random expression of one cell,
\*   Math.round(Math.round(Math.random() * 3) === 3 ? Math.random() * 1 : 0).
RandomCell == {0, 1}

\* The random draws of one _generateModel call, one outcome per cell.
Populations(options) ==
  [0..(options.width - 1) -> [0..(options.height - 1) -> RandomCell]]

\* InnerModel with 1 for a cell that is not randomized.
InnerModelFilled(options, n, randomizePopulation, draws) ==
  [k \in 0..(options.height - 1) |->
     IF randomizePopulation THEN draws[n][k] ELSE 1]

\* The inner loop: one column of options.height cells.
InnerModel(options, n, randomizePopulation, draws) ==
  [k \in 0..(options.height - 1) |->
     IF randomizePopulation THEN draws[n][k] ELSE 0]

\* The iterations n .. upto - 1 of the outer loop, in order (those of the
\* first half, then those of the second): each column is a new array pushed
\* on model.
RECURSIVE GenerateColumns(_, _, _, _, _, _, _)
GenerateColumns(hp, options, model, n, upto, randomizePopulation, draws) ==
  IF ~(n < upto) THEN hp
  ELSE IF n + 1 = upto
  THEN LET innerModel == FreshAddress(hp)
           cells == InnerModel(options, n, randomizePopulation, draws)
           hp1 == (innerModel :> cells) @@ hp
       IN  [hp1 EXCEPT ![model] = Push(@, innerModel)]
  ELSE LET half == (n + upto) \div 2
           first == GenerateColumns(hp, options, model, n, half,
                                    randomizePopulation, draws)
       IN  \* (the test, always true, has the first half evaluated first)
           IF model \in DOMAIN first
           THEN GenerateColumns(first, options, model, half, upto,
                                randomizePopulation, draws)
           ELSE first

\* _generateModel(args): the heap after the call and the address returned.
_generateModel(hp, options, randomizePopulation, draws) ==
  LET model == FreshAddress(hp)
      hp1 == (model :> EmptyArray) @@ hp
  IN  [heap |-> GenerateColumns(hp1, options, model, 0, options.width,
                                randomizePopulation, draws),
       model |-> model]

\* ----------------------------------------------------------- _render

AliveColour == "#3AC150"
DeadColour == "#ffffff"

\* The fill colour of every cell rectangle after _render.
_render(hp, model) ==
  [n \in 0..(Length(hp[model]) - 1) |->
     [k \in 0..(Length(hp[hp[model][n]]) - 1) |->
        IF Truthy(hp[hp[model][n]][k]) THEN AliveColour ELSE DeadColour]]

\* ------------------------------------------------------------- _next

\* NeighbourReads with the bottom corner branches testing k against
\* options.height - 1, the last row.
NeighbourReadsBottomRow(options, n, k) ==
  IF n = 0 /\ k = 0
  THEN << <<n + 1, k - 1>>, <<n + 1, k>>, <<n + 1, k + 1>> >>
  ELSE IF n = options.width - 1 /\ k = 0
  THEN << <<n - 1, k>>, <<n - 1, k - 1>>, <<n, k + 1>> >>
  ELSE IF n = options.width - 1 /\ k = options.height - 1
  THEN << <<n - 1, k - 1>>, <<n, k - 1>>, <<n - 1, k>> >>
  ELSE IF n = 0 /\ k = options.height - 1
  THEN << <<n, k - 1>>, <<n + 1, k - 1>>, <<n + 1, k>> >>
  ELSE IF n # 0 /\ k # 0 /\ n < options.width - 1 /\ k < options.height - 1
  THEN << <<n - 1, k - 1>>, <<n - 1, k>>, <<n - 1, k + 1>>,
          <<n, k - 1>>, <<n, k + 1>>,
          <<n + 1, k - 1>>, <<n + 1, k>>, <<n + 1, k + 1>> >>
  ELSE << >>

\* NeighbourReads with the last term of the "Everything else" sum reading
\* the cell of the term before it: (n + 1, k) is counted twice.
NeighbourReadsTwice(options, n, k) ==
  IF n = 0 /\ k = 0
  THEN << <<n + 1, k - 1>>, <<n + 1, k>>, <<n + 1, k + 1>> >>
  ELSE IF n = options.width - 1 /\ k = 0
  THEN << <<n - 1, k>>, <<n - 1, k - 1>>, <<n, k + 1>> >>
  ELSE IF n = options.width - 1 /\ k = options.height
  THEN << <<n - 1, k - 1>>, <<n, k - 1>>, <<n - 1, k>> >>
  ELSE IF n = 0 /\ k = options.height
  THEN << <<n, k - 1>>, <<n + 1, k - 1>>, <<n + 1, k>> >>
  ELSE IF n # 0 /\ k # 0 /\ n < options.width - 1 /\ k < options.height - 1
  THEN << <<n - 1, k - 1>>, <<n - 1, k>>, <<n - 1, k + 1>>,
          <<n, k - 1>>, <<n, k + 1>>,
          <<n + 1, k - 1>>, <<n + 1, k>>, <<n + 1, k>> >>
  ELSE << >>

\* NeighbourReads with the last term of the "Everything else" sum dropped.
NeighbourReadsSeven(options, n, k) ==
  IF n = 0 /\ k = 0
  THEN << <<n + 1, k - 1>>, <<n + 1, k>>, <<n + 1, k + 1>> >>
  ELSE IF n = options.width - 1 /\ k = 0
  THEN << <<n - 1, k>>, <<n - 1, k - 1>>, <<n, k + 1>> >>
  ELSE IF n = options.width - 1 /\ k = options.height
  THEN << <<n - 1, k - 1>>, <<n, k - 1>>, <<n - 1, k>> >>
  ELSE IF n = 0 /\ k = options.height
  THEN << <<n, k - 1>>, <<n + 1, k - 1>>, <<n + 1, k>> >>
  ELSE IF n # 0 /\ k # 0 /\ n < options.width - 1 /\ k < options.height - 1
  THEN << <<n - 1, k - 1>>, <<n - 1, k>>, <<n - 1, k + 1>>,
          <<n, k - 1>>, <<n, k + 1>>,
          <<n + 1, k - 1>>, <<n + 1, k>> >>
  ELSE << >>

\* The cells the neighbour sum of cell (n, k) reads, in order: the branch
\* the if / else-if chain takes for (n, k), and none when no branch is taken
\* (aliveNeighbours then keeps its initial 0).
NeighbourReads(options, n, k) ==
  IF n = 0 /\ k = 0
  THEN \* "Top left corner."
       << <<n + 1, k - 1>>, <<n + 1, k>>, <<n + 1, k + 1>> >>
  ELSE IF n = options.width - 1 /\ k = 0
  THEN \* "Top right corner."
       << <<n - 1, k>>, <<n - 1, k - 1>>, <<n, k + 1>> >>
  ELSE IF n = options.width - 1 /\ k = options.height
  THEN \* "Bottom right corner."
       << <<n - 1, k - 1>>, <<n, k - 1>>, <<n - 1, k>> >>
  ELSE IF n = 0 /\ k = options.height
  THEN \* "Bottom left corner."
       << <<n, k - 1>>, <<n + 1, k - 1>>, <<n + 1, k>> >>
  ELSE IF n # 0 /\ k # 0 /\ n < options.width - 1 /\ k < options.height - 1
  THEN \* "Everything else."
       << <<n - 1, k - 1>>, <<n - 1, k>>, <<n - 1, k + 1>>,
          <<n, k - 1>>, <<n, k + 1>>,
          <<n + 1, k - 1>>, <<n + 1, k>>, <<n + 1, k + 1>> >>
  ELSE << >>

\* The comment that labels the branch the if / else-if chain takes for cell
\* (n, k); "" when it takes none.
Branch(options, n, k) ==
  IF n = 0 /\ k = 0 THEN "Top left corner."
  ELSE IF n = options.width - 1 /\ k = 0 THEN "Top right corner."
  ELSE IF n = options.width - 1 /\ k = options.height THEN "Bottom right corner."
  ELSE IF n = 0 /\ k = options.height THEN "Bottom left corner."
  ELSE IF n # 0 /\ k # 0 /\ n < options.width - 1 /\ k < options.height - 1
  THEN "Everything else."
  ELSE ""

\* The sum of the reads from the i-th on, added to acc from left to right.
RECURSIVE SumReads(_, _, _, _, _)
SumReads(hp, model, reads, i, acc) ==
  IF i > Len(reads) THEN acc
  ELSE SumReads(hp, model, reads, i + 1,
                Plus(acc, ReadCell(hp, model, reads[i][1], reads[i][2])))

\* aliveNeighbours of cell (n, k): a number, NaN, or TypeError when the sum raises.
AliveNeighbours(hp, options, model, n, k) ==
  LET reads == NeighbourReads(options, n, k)
  IN  IF Len(reads) = 0 THEN 0
      ELSE SumReads(hp, model, reads, 2,
                    ReadCell(hp, model, reads[1][1], reads[1][2]))

\* Store with the row index off by one: newModel[n][k + 1] = v.
StoreBelow(hp, newModel, n, k, v) ==
  LET column == hp[newModel][n]
  IN  [hp EXCEPT ![column] =
         [i \in DOMAIN @ \cup {k + 1} |-> IF i = k + 1 THEN v ELSE @[i]]]

\* newModel[n][k] = v
Store(hp, newModel, n, k, v) ==
  LET column == hp[newModel][n]
  IN  [hp EXCEPT ![column] =
         [i \in DOMAIN @ \cup {k} |-> IF i = k THEN v ELSE @[i]]]

\* ApplyRules with an Alive cell that no rule matches set to its count.
ApplyRulesStoreCount(hp, model, newModel, n, k, aliveNeighbours) ==
  IF Truthy(ReadCell(hp, model, n, k))
  THEN IF Less(aliveNeighbours, 2) THEN Store(hp, newModel, n, k, 0)
       ELSE IF aliveNeighbours = 2 \/ aliveNeighbours = 3
            THEN Store(hp, newModel, n, k, 1)
       ELSE IF Greater(aliveNeighbours, 3) THEN Store(hp, newModel, n, k, 0)
       ELSE Store(hp, newModel, n, k, aliveNeighbours)
  ELSE IF aliveNeighbours = 3 THEN Store(hp, newModel, n, k, 1)
  ELSE hp

\* ApplyRules with rule 2 cut to "three live neighbours".
ApplyRulesSurviveOnThree(hp, model, newModel, n, k, aliveNeighbours) ==
  IF Truthy(ReadCell(hp, model, n, k))
  THEN IF Less(aliveNeighbours, 2) THEN Store(hp, newModel, n, k, 0)
       ELSE IF aliveNeighbours = 3 THEN Store(hp, newModel, n, k, 1)
       ELSE IF Greater(aliveNeighbours, 3) THEN Store(hp, newModel, n, k, 0)
       ELSE hp
  ELSE IF aliveNeighbours = 3 THEN Store(hp, newModel, n, k, 1)
  ELSE hp

\* ApplyRules with the test of rule 4 inverted: aliveNeighbours !== 3.
ApplyRulesBirthUnlessThree(hp, model, newModel, n, k, aliveNeighbours) ==
  IF Truthy(ReadCell(hp, model, n, k))
  THEN IF Less(aliveNeighbours, 2) THEN Store(hp, newModel, n, k, 0)
       ELSE IF aliveNeighbours = 2 \/ aliveNeighbours = 3
            THEN Store(hp, newModel, n, k, 1)
       ELSE IF Greater(aliveNeighbours, 3) THEN Store(hp, newModel, n, k, 0)
       ELSE hp
  ELSE IF aliveNeighbours # 3 THEN Store(hp, newModel, n, k, 1)
  ELSE hp

\* "Define the new state of the new model of the World based on the rules of
\* the game": the heap after the rules' assignment for cell (n, k), if any.
ApplyRules(hp, model, newModel, n, k, aliveNeighbours) ==
  IF Truthy(ReadCell(hp, model, n, k))
  THEN IF Less(aliveNeighbours, 2) THEN Store(hp, newModel, n, k, 0)
       ELSE IF aliveNeighbours = 2 \/ aliveNeighbours = 3
            THEN Store(hp, newModel, n, k, 1)
       ELSE IF Greater(aliveNeighbours, 3) THEN Store(hp, newModel, n, k, 0)
       ELSE hp
  ELSE IF aliveNeighbours = 3 THEN Store(hp, newModel, n, k, 1)
  ELSE hp

\* The two nested for loops from cell (n, k) on; a raise ends them.
RECURSIVE NextLoop(_, _, _, _, _, _)
NextLoop(hp, options, model, newModel, n, k) ==
  IF ~(n < Length(hp[model])) THEN [heap |-> hp, threw |-> FALSE]
  ELSE IF ~(k < Length(hp[hp[model][n]]))
       THEN NextLoop(hp, options, model, newModel, n + 1, 0)
  ELSE LET aliveNeighbours == AliveNeighbours(hp, options, model, n, k)
       IN  IF aliveNeighbours = TypeError
           THEN [heap |-> hp, threw |-> TRUE]
           ELSE NextLoop(ApplyRules(hp, model, newModel, n, k, aliveNeighbours),
                         options, model, newModel, n, k + 1)

\* _next writing the rules' results into this._model itself, no new model.
_nextInPlace(hp, options, model) ==
  LET looped == NextLoop(hp, options, model, model, 0, 0)
  IN  [heap |-> looped.heap, threw |-> looped.threw, model |-> model]

\* _next up to its assignment of this._model and its _render call: the heap,
\* whether it raised, and the value of this._model after it.
_next(hp, options, model) ==
  LET generated == _generateModel(hp, options, FALSE, EmptyArray)
      looped == NextLoop(generated.heap, options, model, generated.model, 0, 0)
  IN  [heap |-> looped.heap,
       threw |-> looped.threw,
       model |-> IF looped.threw THEN model ELSE generated.model]

\* ------------------------------------------------------------ timers

\* window.setInterval: a handle (a positive integer) no active timer has.
SetInterval(active) ==
  CHOOSE id \in 1..(Cardinality(active) + 1) :
    id \notin active /\ \A j \in 1..(id - 1) : j \in active

\* ClearInterval that ends no timer.
ClearIntervalNone(active, handle) == active

\* window.clearInterval(handle)
ClearInterval(active, handle) == active \ {handle}

\* ----------------------------------------------------------- actions

\* new GameOfLife(options): the options (given and at least 1, so that no
\* default of lines 13-16 applies), then the first restart().
Constructed(options, draws) ==
  \E generated \in {_generateModel(EmptyArray, options, TRUE, draws)} :
    \E handle \in {SetInterval({})} :
      /\ _options = options
      /\ heap = generated.heap
      /\ _model = generated.model
      /\ canvas = _render(generated.heap, generated.model)
      /\ _cycle = handle
      /\ timers = {handle}
      /\ threw = FALSE
      /\ stale = Undefined
      /\ snapshot = EmptyArray

\* given || fallback on an option: 0 (like an absent option) is falsy, every
\* other number, a negative one too, is kept.
Default(given, fallback) == IF given = 0 THEN fallback ELSE given

\* The populations of a world of these options that are Dead outside the
\* first MaxDrawn columns and rows.
Drawn(options) ==
  LET corner == (0..(MaxDrawn - 1)) \X (0..(MaxDrawn - 1))
  IN  {[n \in 0..(options.width - 1) |->
          [k \in 0..(options.height - 1) |->
             IF <<n, k>> \in alive THEN 1 ELSE 0]] : alive \in SUBSET corner}

\* new GameOfLife(options) from the caller's options object (_options before
\* the call: this._options is that very object): the defaults of lines 14-15
\* fill it in, nothing checks it, and the first restart() runs, with no
\* cycle to end yet.
Construct ==
  /\ _model = Undefined
  /\ \E options \in {[width |-> Default(_options.width, DefaultWidth),
                       height |-> Default(_options.height, DefaultHeight)]} :
       \E draws \in Drawn(options) :
         \E cleared \in {IF Truthy(_cycle) THEN ClearInterval(timers, _cycle) ELSE timers} :
           \E generated \in {_generateModel(heap, options, TRUE, draws)} :
             \E handle \in {SetInterval(cleared)} :
               /\ _options' = options
               /\ _model' = generated.model
               /\ heap' = generated.heap
               /\ canvas' = _render(generated.heap, generated.model)
               /\ _cycle' = handle
               /\ timers' = cleared \cup {handle}
               /\ UNCHANGED <<threw, stale, snapshot>>

\* restart(): end the running cycle, generate and render a random world,
\* start a new cycle.
Restart ==
  \E draws \in Populations(_options) :
    \E cleared \in {IF Truthy(_cycle) THEN ClearInterval(timers, _cycle) ELSE timers} :
      \E generated \in {_generateModel(Collect(heap, {_model}), _options, TRUE, draws)} :
        \E handle \in {SetInterval(cleared)} :
          /\ _model' = generated.model
          /\ heap' = Collect(generated.heap, {generated.model})
          /\ canvas' = _render(generated.heap, generated.model)
          /\ _cycle' = handle
          /\ timers' = cleared \cup {handle}
          /\ threw' = FALSE
          /\ stale' = Undefined
          /\ snapshot' = EmptyArray
          /\ UNCHANGED _options

\* One firing of the interval callback of any active timer (each is bound
\* to this engine): this._next(), that is the new model,
\* its assignment and _render(); a raise leaves the model and the canvas.
\* The heap keeps the world the call read (stale) until the next call, for a
\* holder of that reference; anything else unreachable is collected.
Tick ==
  /\ timers # {}
  /\ \E called \in {_next(Collect(heap, {_model}), _options, _model)} :
       /\ _model' = called.model
       /\ heap' = Collect(called.heap, {_model, called.model})
       /\ threw' = called.threw
       /\ canvas' = IF called.threw THEN canvas
                    ELSE _render(called.heap, called.model)
       /\ stale' = _model
       /\ snapshot' = World(heap, _model)
  /\ UNCHANGED <<_options, _cycle, timers>>

\* ---------------------------------------------------- specifications

\* The options of the worlds of at most maxCells cells.
Options(maxCells) ==
  {options \in [width : 1..maxCells, height : 1..maxCells] :
     options.width * options.height <= maxCells}

\* The engine on small worlds: every population, restarts and ticks.
Init ==
  \E options \in Options(MaxRestartCells) :
    \E draws \in Populations(options) : Constructed(options, draws)

Next == Tick \/ Restart

Spec == Init /\ [][Next]_vars

\* Every population of the worlds of at most MaxCells cells, stepped: restart
\* only draws another of these populations.
InitStep ==
  \E options \in Options(MaxCells) :
    \E draws \in Populations(options) : Constructed(options, draws)

NextStep == Tick

SpecStep == InitStep /\ [][NextStep]_vars

\* The constructor on every options object with a width and a height from
\* -MaxGiven to MaxGiven (0 also stands for an option left out): before the
\* call no model, no cycle, no timer and a blank canvas.
InitNew ==
  /\ _options \in [width : (-MaxGiven)..MaxGiven, height : (-MaxGiven)..MaxGiven]
  /\ heap = EmptyArray
  /\ _model = Undefined
  /\ _cycle = Undefined
  /\ timers = {}
  /\ canvas = EmptyArray
  /\ threw = FALSE
  /\ stale = Undefined
  /\ snapshot = EmptyArray

NextNew == Construct

SpecNew == InitNew /\ [][NextNew]_vars

\* A population whose alive cells are exactly the given cells.
Population(options, alive) ==
  [n \in 0..(options.width - 1) |->
     [k \in 0..(options.height - 1) |-> IF <<n, k>> \in alive THEN 1 ELSE 0]]

\* The three cells of the row (column) through centre c.
HorizontalTriple(c) == {<<c[1] - 1, c[2]>>, c, <<c[1] + 1, c[2]>>}
VerticalTriple(c) == {<<c[1], c[2] - 1>>, c, <<c[1], c[2] + 1>>}

\* The populations that are one horizontal triple, anywhere it fits.
BlinkerPopulations(options) ==
  {Population(options, HorizontalTriple(c)) :
     c \in (1..(options.width - 2)) \X (0..(options.height - 1))}

\* A horizontal triple in the worlds up to MaxSide x MaxSide, stepped.
InitBlinker ==
  \E options \in [width : 1..MaxSide, height : 1..MaxSide] :
    \E draws \in BlinkerPopulations(options) : Constructed(options, draws)

NextBlinker == Tick

SpecBlinker == InitBlinker /\ [][NextBlinker]_vars

\* ------------------------------------------------ reference notions

\* A _next call has run since the last restart: stale and snapshot hold the
\* world it was called on.
Stepped == stale # Undefined

\* That call ran to its end: it installed and rendered a new world.
Completed == Stepped /\ ~threw

\* The current world as a value.
Current == World(heap, _model)

Cells == (0..(_options.width - 1)) \X (0..(_options.height - 1))

\* The in-bounds Moore neighbours of cell (n, k): no wraparound.
MooreNeighbours(n, k) ==
  {c \in Cells : c # <<n, k>> /\ c[1] - n \in -1..1 /\ c[2] - k \in -1..1}

\* The number of Alive cells among the in-bounds Moore neighbours.
LiveNeighbours(world, n, k) ==
  Cardinality({c \in MooreNeighbours(n, k) : world[c[1]][c[2]] = 1})

\* The transition rule: survival on 2 or 3, birth on exactly 3, else Dead.
Conway(state, count) ==
  IF state = 1 THEN (IF count \in {2, 3} THEN 1 ELSE 0)
  ELSE IF count = 3 THEN 1 ELSE 0

StrictlyInterior(n, k) ==
  0 < n /\ n < _options.width - 1 /\ 0 < k /\ k < _options.height - 1

AliveCells(world) == {c \in Cells : world[c[1]][c[2]] = 1}

Range(seq) == {seq[i] : i \in 1..Len(seq)}

\* ------------------------------------------------------------ claims

\* C1: after one step every cell, edge and corner cells included, holds the
\* transition rule's value for its state before the step and the number of
\* Alive cells among its in-bounds Moore neighbours before the step. Stated of
\* the steps that run to their end.
C1_EveryCellFollowsRule ==
  Completed =>
    \A c \in Cells :
      Current[c[1]][c[2]] =
        Conway(snapshot[c[1]][c[2]], LiveNeighbours(snapshot, c[1], c[2]))

\* C2: on an N x N world the neighbour count of the corner cell (0,0) reads
\* exactly its in-bounds neighbours (0,1), (1,0), (1,1), nothing out of
\* bounds, and equals the number of Alive cells among them. Stated of the
\* steps that run to their end.
C2_CornerCountsInBounds ==
  (Completed /\ _options.width = _options.height) =>
    /\ Range(NeighbourReads(_options, 0, 0)) = MooreNeighbours(0, 0)
    /\ AliveNeighbours(heap, _options, stale, 0, 0) = LiveNeighbours(snapshot, 0, 0)

\* C3: step is total: every _next call, on worlds of width 1 or height 1
\* too, ends without raising and installs a new current world.
C3_StepIsTotal ==
  Stepped => (~threw /\ _model # stale)

\* A world whose Alive cells are exactly one 2 x 2 block.
IsBlock(world) ==
  \E c \in Cells :
    AliveCells(world) =
      {c, <<c[1] + 1, c[2]>>, <<c[1], c[2] + 1>>, <<c[1] + 1, c[2] + 1>>}

\* C4: a world whose only Alive cells form a 2 x 2 block, anywhere in the
\* world, is unchanged by a step (and so by any number of steps).
C4_BlockIsStill ==
  (Stepped /\ IsBlock(snapshot)) => Current = snapshot

\* The five cells of the two triples through centre c lie off the border.
BlinkerFits(c) ==
  \A d \in HorizontalTriple(c) \cup VerticalTriple(c) : StrictlyInterior(d[1], d[2])

\* C5: a horizontal triple alone in a world large enough that both triples
\* through its centre lie off the border becomes the vertical triple through
\* the same centre after one step, and the vertical one the horizontal one,
\* so the two alternate on every step.
C5_BlinkerAlternates ==
  Stepped =>
    \A c \in Cells :
      BlinkerFits(c) =>
        /\ AliveCells(snapshot) = HorizontalTriple(c)
             => AliveCells(Current) = VerticalTriple(c)
        /\ AliveCells(snapshot) = VerticalTriple(c)
             => AliveCells(Current) = HorizontalTriple(c)

\* C5 witness: a step has turned the vertical triple back into the horizontal
\* triple the world started with (its second step).
C5_Witness ==
  /\ Stepped
  /\ \E c \in Cells :
       /\ BlinkerFits(c)
       /\ AliveCells(snapshot) = VerticalTriple(c)
       /\ AliveCells(Current) = HorizontalTriple(c)

\* C6: a strictly interior cell with exactly 3 Alive cells among its 8 Moore
\* neighbours is Alive after one step, whether it was Alive or Dead.
C6_InteriorThreeIsAlive ==
  Stepped =>
    \A c \in Cells :
      (StrictlyInterior(c[1], c[2]) /\ LiveNeighbours(snapshot, c[1], c[2]) = 3)
        => Current[c[1]][c[2]] = 1

\* C6 witness: a step gave birth to a Dead interior cell with 3 Alive neighbours.
C6_Witness ==
  /\ Stepped
  /\ \E c \in Cells :
       /\ StrictlyInterior(c[1], c[2])
       /\ LiveNeighbours(snapshot, c[1], c[2]) = 3
       /\ snapshot[c[1]][c[2]] = 0
       /\ Current[c[1]][c[2]] = 1

\* An Alive cell of world whose in-bounds Alive-neighbour count is below 2 or
\* above 3.
Doomed(world, c) ==
  /\ world[c[1]][c[2]] = 1
  /\ LiveNeighbours(world, c[1], c[2]) \notin {2, 3}

\* C7: every cell, interior, edge or corner, that is Alive with fewer than 2
\* or more than 3 Alive in-bounds neighbours is Dead after one step.
C7_DoomedCellDies ==
  Stepped => \A c \in Cells : Doomed(snapshot, c) => Current[c[1]][c[2]] = 0

\* C7, of the steps that run to their end only.
C7_DoomedCellDiesWhenCompleted ==
  Completed => \A c \in Cells : Doomed(snapshot, c) => Current[c[1]][c[2]] = 0

\* C8: after any restarts and steps the current world has exactly width
\* columns of exactly height cells, each holding Dead (0) or Alive (1).
C8_DimensionsKept ==
  /\ DOMAIN heap[_model] = 0..(_options.width - 1)
  /\ \A n \in DOMAIN heap[_model] :
       heap[heap[_model][n]] \in [0..(_options.height - 1) -> {0, 1}]

\* C8 witness: a step has run to its end on a populated world.
C8_Witness ==
  /\ Completed
  /\ AliveCells(snapshot) # {}
  /\ C8_DimensionsKept

\* C9: a world with no Alive cell has no Alive cell after a step (and so
\* after any number of steps).
C9_EmptyStaysEmpty ==
  (Stepped /\ AliveCells(snapshot) = {}) => AliveCells(Current) = {}

\* C9 witness: a step has run to its end on an empty world with an interior.
C9_Witness ==
  /\ Completed
  /\ AliveCells(snapshot) = {}
  /\ AliveCells(Current) = {}
  /\ \E c \in Cells : StrictlyInterior(c[1], c[2])

\* C10: a step never writes to the world that was current when it was
\* called: the holder of that reference still sees the same world, and the
\* world it installs is made of new arrays only, none shared with the old.
C10_OldWorldUntouched ==
  Stepped =>
    /\ World(heap, stale) = snapshot
    /\ threw => _model = stale
    /\ ~threw => ArraysOf(heap, _model) \cap ArraysOf(heap, stale) = {}

\* C10 witness: a step installed a world that differs from the one it read.
C10_Witness ==
  /\ Completed
  /\ Current # snapshot
  /\ World(heap, stale) = snapshot

\* C11: a constructor call with a width or a height that is zero or negative
\* is rejected: it creates no model and starts no timer.
C11_NonPositiveIsRejected ==
  [][(_model = Undefined /\ (_options.width <= 0 \/ _options.height <= 0))
       => (_model' = Undefined /\ heap' = heap /\ timers' = {})]_vars

\* The world a complete _next call makes of the world the last call read.
StepOfSnapshot ==
  LET called == _next(heap, _options, stale)
  IN  World(called.heap, called.model)

\* C12: the canvas always shows the current world, whole, and every tick
\* makes one step and one render of the world that step produced: after a
\* tick the step has run to its end, and the world shown is the step of the
\* world shown before.
C12_EveryTickRendersItsStep ==
  /\ canvas = _render(heap, _model)
  /\ Stepped => (~threw /\ _model # stale /\ Current = StepOfSnapshot)

\* The same for the ticks whose step runs to its end.
C12_CompletedTickRendersItsStep ==
  /\ canvas = _render(heap, _model)
  /\ Completed => (_model # stale /\ Current = StepOfSnapshot)

\* What _generateModel() (no randomizePopulation) returns in this state.
Blank == _generateModel(heap, _options, FALSE, EmptyArray)

\* C13: without randomizePopulation _generateModel returns a world of width
\* columns of height cells, every cell 0 (Dead), made of new arrays, and
\* leaves the arrays there were as they were.
C13_BlankModelIsAllDead ==
  /\ World(Blank.heap, Blank.model) =
       [n \in 0..(_options.width - 1) |-> [k \in 0..(_options.height - 1) |-> 0]]
  /\ ArraysOf(Blank.heap, Blank.model) \cap DOMAIN heap = {}
  /\ \A a \in DOMAIN heap : Blank.heap[a] = heap[a]

\* A step of a world with no Alive cell writes no cell: the new world is
\* the model _generateModel() returned to _next.
C13_Witness ==
  /\ Completed /\ AliveCells(snapshot) = {}
  /\ _options.width >= 2 /\ _options.height >= 2
  /\ Current = World(Blank.heap, Blank.model)
  /\ C13_BlankModelIsAllDead

\* C14: for a strictly interior cell the sum _next computes reads the eight
\* Moore neighbours, each once and never the cell itself, so aliveNeighbours
\* is the number of Alive neighbours before the step, and the cell's new
\* state is the one Conway's rule gives.
C14_InteriorCountsAllEight ==
  Stepped =>
    \A c \in Cells :
      StrictlyInterior(c[1], c[2]) =>
        /\ Len(NeighbourReads(_options, c[1], c[2])) = 8
        /\ Cardinality(Range(NeighbourReads(_options, c[1], c[2]))) = 8
        /\ Range(NeighbourReads(_options, c[1], c[2])) = MooreNeighbours(c[1], c[2])
        /\ AliveNeighbours(heap, _options, stale, c[1], c[2])
             = LiveNeighbours(snapshot, c[1], c[2])
        /\ Current[c[1]][c[2]]
             = Conway(snapshot[c[1]][c[2]], LiveNeighbours(snapshot, c[1], c[2]))

\* An Alive interior cell with all eight neighbours Alive, Dead after the step.
C14_Witness ==
  /\ Stepped
  /\ \E c \in Cells :
       /\ StrictlyInterior(c[1], c[2])
       /\ snapshot[c[1]][c[2]] = 1
       /\ AliveNeighbours(heap, _options, stale, c[1], c[2]) = 8
       /\ Current[c[1]][c[2]] = 0

\* The corner cells of the world.
TopRight == <<_options.width - 1, 0>>
BottomRight == <<_options.width - 1, _options.height - 1>>
BottomLeft == <<0, _options.height - 1>>

\* C15: in a world of width and height at least 2 the top right, bottom right
\* and bottom left corner cells each take the branch labelled for them, and
\* aliveNeighbours is then the number of Alive cells among the corner's
\* three neighbours inside the world.
C15_CornerBranchesCount ==
  (Completed /\ _options.width >= 2 /\ _options.height >= 2) =>
    /\ Branch(_options, TopRight[1], TopRight[2]) = "Top right corner."
    /\ Branch(_options, BottomRight[1], BottomRight[2]) = "Bottom right corner."
    /\ Branch(_options, BottomLeft[1], BottomLeft[2]) = "Bottom left corner."
    /\ \A c \in {TopRight, BottomRight, BottomLeft} :
         AliveNeighbours(heap, _options, stale, c[1], c[2])
           = LiveNeighbours(snapshot, c[1], c[2])

\* What the code does at these corners: the top right one takes its branch,
\* whose sum reads row -1 and is NaN; the bottom ones take no branch (k is
\* never height) and keep the count 0.
C15_CornerBranchesTaken ==
  (Completed /\ _options.width >= 2 /\ _options.height >= 2) =>
    /\ Branch(_options, TopRight[1], TopRight[2]) = "Top right corner."
    /\ AliveNeighbours(heap, _options, stale, TopRight[1], TopRight[2]) = NaN
    /\ \A c \in {BottomRight, BottomLeft} :
         /\ Branch(_options, c[1], c[2]) = ""
         /\ AliveNeighbours(heap, _options, stale, c[1], c[2]) = 0

\* C16: exactly one interval timer is active, the one this._cycle holds:
\* restart() ends the cycle it replaces, so no timer of an earlier cycle is
\* left to fire and each interval brings one callback, which advances the
\* model by one generation when it runs to its end.
C16_OneTimerActive ==
  /\ Cardinality(timers) = 1
  /\ timers = {_cycle}
  /\ Completed => Current = StepOfSnapshot

\* After a restart() that followed the constructor's: the model is not the
\* first array of the heap and no _next has run since.
C16_Witness ==
  /\ ~Stepped
  /\ _model # 0
  /\ timers = {_cycle}

\* The cells of the first or last column or row, and the two of row 0 that
\* end it.
Border(c) ==
  \/ c[1] \in {0, _options.width - 1}
  \/ c[2] \in {0, _options.height - 1}
TopCorner(c) == c[2] = 0 /\ c[1] \in {0, _options.width - 1}

C18_CellsAreBinary ==
  _options.width >= 2 =>
    \A n \in DOMAIN heap[_model] :
      \A k \in DOMAIN heap[heap[_model][n]] :
        /\ ReadCell(heap, _model, n, k) \in {0, 1}
        /\ ReadCell(heap, _model, n, k) \notin {Undefined, NaN, TypeError}

\* An Alive top corner, whose count is NaN, after the step: no rule stored
\* anything in it and it holds the 0 of the new model.
C18_Witness ==
  /\ Completed /\ _options.width >= 2
  /\ \E c \in Cells :
       /\ TopCorner(c)
       /\ snapshot[c[1]][c[2]] = 1
       /\ AliveNeighbours(heap, _options, stale, c[1], c[2]) = NaN
       /\ ReadCell(heap, _model, c[1], c[2]) = 0

====
